---- MODULE Spec2Model ----
(***************************************************************************)
(* A model of src/csv_processor_module.rs: the two-pass CSV analysis       *)
(* (structure, then sampled column types) and the sidecar metadata file.   *)
(*                                                                         *)
(* Text is a sequence of one-character strings, so that splitting on       *)
(* commas, trimming, lowercasing, number parsing and number formatting     *)
(* are computed character by character as the Rust code computes them.     *)
(***************************************************************************)
EXTENDS FiniteSets, Integers, Sequences, TLC

\* ------------------------------------------------------------------ bounds
\* Longest source file, in physical lines.
MaxLines == 7
\* Longest sample list handed to detect_column_data_type on its own.
MaxSamples == 5
\* Most lines of a source longer than the sampler reads.
MaxLongLines == 11
\* Most lines of a source that is analysed more than once.
MaxRerunLines == 2
\* Most runs made on one source.
MaxRuns == 3

\* ------------------------------------------------------- program constants
CSV_SAMPLE_ROWS_FOR_TYPE_DETECTION == 10
\* The literal of `column_sample_values[column_index].len() < 5`.
SAMPLE_VALUES_LIMIT == 5
\* The literals of `(total_samples * 7) / 10`.
THRESHOLD_NUMERATOR == 7
THRESHOLD_DENOMINATOR == 10

\* -------------------------------------------------------------------- text
MinOf(S) == CHOOSE x \in S : \A y \in S : x <= y
MaxOf(S) == CHOOSE x \in S : \A y \in S : x >= y

DigitChars == <<"0", "1", "2", "3", "4", "5", "6", "7", "8", "9">>
IsDigit(c) == \E i \in 1..10 : DigitChars[i] = c
DigitValue(c) == (CHOOSE i \in 1..10 : DigitChars[i] = c) - 1

UpperChars ==
    <<"A", "B", "C", "D", "E", "F", "G", "H", "I", "J", "K", "L", "M",
      "N", "O", "P", "Q", "R", "S", "T", "U", "V", "W", "X", "Y", "Z">>
LowerChars ==
    <<"a", "b", "c", "d", "e", "f", "g", "h", "i", "j", "k", "l", "m",
      "n", "o", "p", "q", "r", "s", "t", "u", "v", "w", "x", "y", "z">>

\* char::is_whitespace on the characters a line of a file can hold.
IsWhitespace(c) == c \in {" ", "\t", "\r"}

\* str::to_lowercase
to_lowercase(s) ==
    [i \in 1..Len(s) |->
        IF \E k \in 1..26 : UpperChars[k] = s[i]
        THEN LowerChars[CHOOSE k \in 1..26 : UpperChars[k] = s[i]]
        ELSE s[i]]

\* str::trim: drops leading and trailing whitespace.
trim(s) ==
    LET kept == {i \in 1..Len(s) : ~IsWhitespace(s[i])}
    IN  IF kept = {} THEN <<>> ELSE SubSeq(s, MinOf(kept), MaxOf(kept))

\* str::split(','): the fields between commas; a text with no comma, the
\* empty text included, is one field.
RECURSIVE split_on_comma(_)
split_on_comma(s) ==
    LET commas == {i \in 1..Len(s) : s[i] = ","}
    IN  IF commas = {} THEN <<s>>
        ELSE LET c == MinOf(commas)
             IN  <<SubSeq(s, 1, c - 1)>> \o split_on_comma(SubSeq(s, c + 1, Len(s)))

\* usize's Display (format!("{}", n)): the decimal digits of n.
RECURSIVE format_usize(_)
format_usize(n) ==
    IF n < 10 THEN <<DigitChars[n + 1]>>
    ELSE format_usize(n \div 10) \o <<DigitChars[(n % 10) + 1]>>

IsSign(c) == c \in {"+", "-"}
StripSign(s) == IF Len(s) > 0 /\ IsSign(s[1]) THEN Tail(s) ELSE s
AllDigits(s) == \A i \in 1..Len(s) : IsDigit(s[i])

RECURSIVE StripLeadingZeros(_)
StripLeadingZeros(d) ==
    IF Len(d) > 1 /\ d[1] = "0" THEN StripLeadingZeros(Tail(d)) ELSE d

\* a <= b for two digit texts of the same length.
DigitsLeq(a, b) ==
    \/ a = b
    \/ \E i \in 1..Len(a) :
          /\ DigitValue(a[i]) < DigitValue(b[i])
          /\ \A j \in 1..(i - 1) : a[j] = b[j]

\* The decimal digits of i64::MAX and of -i64::MIN.
I64MaxDigits ==
    <<"9", "2", "2", "3", "3", "7", "2", "0", "3", "6",
      "8", "5", "4", "7", "7", "5", "8", "0", "7">>
I64MinDigits ==
    <<"9", "2", "2", "3", "3", "7", "2", "0", "3", "6",
      "8", "5", "4", "7", "7", "5", "8", "0", "8">>

\* str::parse::<i64>().is_ok(): an optional sign, then one or more decimal
\* digits whose value fits 64 signed bits (no whitespace, no separators).
parses_as_i64(s) ==
    LET d == StripSign(s)
        m == StripLeadingZeros(d)
        negative == Len(s) > 0 /\ s[1] = "-"
    IN  /\ Len(d) > 0
        /\ AllDigits(d)
        /\ \/ Len(m) < Len(I64MaxDigits)
           \/ /\ Len(m) = Len(I64MaxDigits)
              /\ DigitsLeq(m, IF negative THEN I64MinDigits ELSE I64MaxDigits)

\* The mantissa of a decimal float: digits, optionally a '.' and digits, with
\* at least one digit in all.
IsDecimalMantissa(m) ==
    LET dots == {i \in 1..Len(m) : m[i] = "."}
    IN  IF dots = {} THEN Len(m) > 0 /\ AllDigits(m)
        ELSE LET p == MinOf(dots)
                 int_part == SubSeq(m, 1, p - 1)
                 frac_part == SubSeq(m, p + 1, Len(m))
             IN  /\ AllDigits(int_part)
                 /\ AllDigits(frac_part)
                 /\ Len(int_part) + Len(frac_part) > 0

\* str::parse::<f64>().is_ok(): an optional sign, then "inf", "infinity" or
\* "nan" in any case, or a decimal mantissa with an optional exponent
\* ('e' or 'E', an optional sign, one or more digits).
parses_as_f64(s) ==
    LET u == to_lowercase(StripSign(s))
        exps == {i \in 1..Len(u) : u[i] = "e"}
    IN  \/ u \in {<<"i", "n", "f">>, <<"n", "a", "n">>,
                  <<"i", "n", "f", "i", "n", "i", "t", "y">>}
        \/ IF exps = {} THEN IsDecimalMantissa(u)
           ELSE LET e == MinOf(exps)
                    exponent == StripSign(SubSeq(u, e + 1, Len(u)))
                IN  /\ IsDecimalMantissa(SubSeq(u, 1, e - 1))
                    /\ Len(exponent) > 0
                    /\ AllDigits(exponent)

\* A text written as its characters.
ColumnPrefix == <<"c", "o", "l", "u", "m", "n", "_">>

\* ------------------------------------------------------- CsvColumnDataType
CsvColumnDataType == {"Boolean", "Integer", "Float", "String"}

to_toml_string(data_type) ==
    CASE data_type = "Boolean" -> <<"b", "o", "o", "l", "e", "a", "n">>
      [] data_type = "Integer" -> <<"i", "n", "t", "e", "g", "e", "r">>
      [] data_type = "Float" -> <<"f", "l", "o", "a", "t">>
      [] data_type = "String" -> <<"s", "t", "r", "i", "n", "g">>

\* CsvColumnDataType::from_toml_string: <<>> is None, <<t>> is Some(t).
from_toml_string_case_sensitive(toml_string) ==
    IF toml_string \in {<<"b", "o", "o", "l", "e", "a", "n">>, <<"b", "o", "o", "l">>}
    THEN <<"Boolean">>
    ELSE IF toml_string \in {<<"i", "n", "t", "e", "g", "e", "r">>, <<"i", "n", "t">>}
    THEN <<"Integer">>
    ELSE IF toml_string \in {<<"f", "l", "o", "a", "t">>, <<"d", "e", "c", "i", "m", "a", "l">>,
                             <<"n", "u", "m", "b", "e", "r">>}
    THEN <<"Float">>
    ELSE IF toml_string \in {<<"s", "t", "r", "i", "n", "g">>, <<"t", "e", "x", "t">>,
                             <<"s", "t", "r">>}
    THEN <<"String">>
    ELSE <<>>

from_toml_string_float_as_number(toml_string) ==
    LET lowered == to_lowercase(toml_string)
    IN  IF lowered \in {<<"b", "o", "o", "l", "e", "a", "n">>, <<"b", "o", "o", "l">>}
        THEN <<"Boolean">>
        ELSE IF lowered \in {<<"i", "n", "t", "e", "g", "e", "r">>, <<"i", "n", "t">>}
        THEN <<"Integer">>
        ELSE IF lowered \in {<<"d", "e", "c", "i", "m", "a", "l">>, <<"n", "u", "m", "b", "e", "r">>}
        THEN <<"Float">>
        ELSE IF lowered \in {<<"s", "t", "r", "i", "n", "g">>, <<"t", "e", "x", "t">>,
                              <<"s", "t", "r">>}
        THEN <<"String">>
        ELSE <<>>

from_toml_string(toml_string) ==
    LET lowered == to_lowercase(toml_string)
    IN  IF lowered \in {<<"b", "o", "o", "l", "e", "a", "n">>, <<"b", "o", "o", "l">>}
        THEN <<"Boolean">>
        ELSE IF lowered \in {<<"i", "n", "t", "e", "g", "e", "r">>, <<"i", "n", "t">>}
        THEN <<"Integer">>
        ELSE IF lowered \in {<<"f", "l", "o", "a", "t">>, <<"d", "e", "c", "i", "m", "a", "l">>,
                              <<"n", "u", "m", "b", "e", "r">>}
        THEN <<"Float">>
        ELSE IF lowered \in {<<"s", "t", "r", "i", "n", "g">>, <<"t", "e", "x", "t">>,
                              <<"s", "t", "r">>}
        THEN <<"String">>
        ELSE <<>>

\* ------------------------------------------------------------------- paths
\* A path is its components in order, each a text, and whether it starts at
\* the root. A byte that is not valid UTF-8 is the character InvalidByte.
InvalidByte == "<ff>"
ParentDirComponent == <<".", ".">>
METADATA_FILE_EXTENSION == <<"c", "s", "v", "_", "m", "e", "t", "a", "d", "a", "t", "a", ".", "t", "o", "m", "l">>

\* Path::file_name: the last component unless it is "..", <<>> for None.
file_name(path) ==
    IF Len(path.components) = 0 THEN <<>>
    ELSE LET last == path.components[Len(path.components)]
         IN  IF last = ParentDirComponent THEN <<>> ELSE <<last>>

\* Path::file_stem: the file name before its last '.', the whole name if it
\* has no '.' or only a leading one.
file_stem(path) ==
    IF Len(file_name(path)) = 0 THEN <<>>
    ELSE LET name == file_name(path)[1]
             dots == {i \in 1..Len(name) : name[i] = "."}
         IN  IF dots = {} \/ MaxOf(dots) = 1 THEN <<name>>
             ELSE <<SubSeq(name, 1, MaxOf(dots) - 1)>>

\* OsStr::to_str: None when the text is not valid UTF-8.
to_str(os_text) ==
    IF \E i \in 1..Len(os_text) : os_text[i] = InvalidByte THEN <<>>
    ELSE <<os_text>>

\* Path::parent: the path without its last component, None for the root and
\* for the empty path.
parent(path) ==
    IF Len(path.components) = 0 THEN <<>>
    ELSE <<[absolute |-> path.absolute,
            components |-> SubSeq(path.components, 1, Len(path.components) - 1)]>>

\* Path::join with a relative file name: one more component.
join(directory, name) ==
    [absolute |-> directory.absolute, components |-> Append(directory.components, name)]

determine_metadata_file_path_keeping_extension(csv_file_path) ==
    IF Len(file_name(csv_file_path)) = 0 \/ Len(to_str(file_name(csv_file_path)[1])) = 0
    THEN [ok |-> FALSE, path |-> <<>>]
    ELSE [ok |-> TRUE,
          path |-> <<join(parent(csv_file_path)[1],
                          file_name(csv_file_path)[1] \o <<".">>
                              \o METADATA_FILE_EXTENSION)>>]

determine_metadata_file_path_same_name(csv_file_path) ==
    IF Len(file_name(csv_file_path)) = 0 \/ Len(to_str(file_name(csv_file_path)[1])) = 0
    THEN [ok |-> FALSE, path |-> <<>>]
    ELSE [ok |-> TRUE,
          path |-> <<join(parent(csv_file_path)[1], file_name(csv_file_path)[1])>>]

\* determine_metadata_file_path: Ok(<parent>/<stem>.csv_metadata.toml), or
\* the configuration error when the path has no UTF-8 stem or no parent.
determine_metadata_file_path(csv_file_path) ==
    LET stem == IF Len(file_stem(csv_file_path)) = 0 THEN <<>>
                ELSE to_str(file_stem(csv_file_path)[1])
        directory == parent(csv_file_path)
    IN  IF Len(stem) = 0 \/ Len(directory) = 0
        THEN [ok |-> FALSE, path |-> <<>>]
        ELSE [ok |-> TRUE,
              path |-> <<join(directory[1],
                              stem[1] \o <<".">> \o METADATA_FILE_EXTENSION)>>]

\* ------------------------------------------------- detect_column_data_type
BooleanTokens ==
    { <<"t", "r", "u", "e">>, <<"f", "a", "l", "s", "e">>, <<"y", "e", "s">>,
      <<"n", "o">>, <<"1">>, <<"0">>, <<"t">>, <<"f">>, <<"y">>, <<"n">> }

is_boolean_value_words_only(value) ==
    value \in BooleanTokens \ {<<"1">>, <<"0">>}

is_boolean_value(value) == value \in BooleanTokens

count_vote_float_first(counts, sample_value) ==
    LET trimmed_value == to_lowercase(trim(sample_value))
    IN  IF is_boolean_value(trimmed_value)
        THEN [counts EXCEPT !.boolean_count = @ + 1]
        ELSE IF parses_as_f64(trimmed_value)
        THEN [counts EXCEPT !.float_count = @ + 1]
        ELSE IF parses_as_i64(trimmed_value)
        THEN [counts EXCEPT !.integer_count = @ + 1]
        ELSE counts

\* One iteration of the voting loop: the value casts at most one vote.
count_vote(counts, sample_value) ==
    LET trimmed_value == to_lowercase(trim(sample_value))
    IN  IF is_boolean_value(trimmed_value)
        THEN [counts EXCEPT !.boolean_count = @ + 1]
        ELSE IF parses_as_i64(trimmed_value)
        THEN [counts EXCEPT !.integer_count = @ + 1]
        ELSE IF parses_as_f64(trimmed_value)
        THEN [counts EXCEPT !.float_count = @ + 1]
        ELSE counts

RECURSIVE count_votes(_, _)
count_votes(counts, sample_values) ==
    IF Len(sample_values) = 0 THEN counts
    ELSE count_votes(count_vote(counts, Head(sample_values)), Tail(sample_values))

vote_threshold_rounded_up(total_samples) ==
    (total_samples * THRESHOLD_NUMERATOR + THRESHOLD_DENOMINATOR - 1)
        \div THRESHOLD_DENOMINATOR

vote_threshold(total_samples) ==
    (total_samples * THRESHOLD_NUMERATOR) \div THRESHOLD_DENOMINATOR

detect_column_data_type(sample_values) ==
    IF Len(sample_values) = 0 THEN "String"
    ELSE LET counts ==
                 count_votes([boolean_count |-> 0, integer_count |-> 0,
                              float_count |-> 0], sample_values)
             threshold == vote_threshold(Len(sample_values))
         IN  IF counts.boolean_count >= threshold THEN "Boolean"
             ELSE IF counts.integer_count >= threshold THEN "Integer"
             ELSE IF counts.float_count >= threshold THEN "Float"
             ELSE "String"

\* ------------------------------------------------------------------- state
VARIABLES
    csv_file,                       \* the source: [exists, lines]
    metadata_file,                  \* the sidecar: [exists, content]
    pc,                             \* where the run of the analysis stands
    has_header_row,                 \* analyze_csv_basic_structure's results
    column_count,
    data_row_count,
    inconsistent_columns_warning,   \* the warning of detect_csv_header_row
    csv_lines,                      \* lines the sampler's iterator has yielded
    rows_processed,
    column_names,
    column_sample_values,
    column_non_empty_counts,
    column_empty_counts,
    column_information_list,
    metadata_file_already_existed,
    result,                         \* <<>> or <<CsvAnalysisResults>>
    error,                          \* <<>> or <<RowsAndColumnsError>>
    sample_input,                   \* a sample list classified on its own
    detected_type,                  \* <<>> or <<its CsvColumnDataType>>
    sample_votes,                   \* <<>> or <<the votes its values cast>>
    csv_file_at_start,              \* history: the source as the first run began
    other_pc,                       \* where a second, concurrent run stands
    other_column_information_list,  \*   its column list,
    other_metadata_file_already_existed,    \* its reading of exists()
    other_result,                   \*   and <<>> or <<what it returned>>
    csv_file_path,                  \* the argument of the analysis
    metadata_file_path,             \* <<>> or <<the path derived in step 3>>
    run_number,                     \* which run on this source this is
    metadata_file_at_start,         \* history: the sidecar as the run began
    stage_log,                      \* history: the stages this run entered
    run_log,                        \* history: what each successful run left
    path_input_a,                   \* two source paths whose metadata paths
    path_input_b,                   \*   are derived on their own
    path_output_a,
    path_output_b,
    tag_variant,                    \* a type tag taken through to_toml_string
    tag_round_trip,                 \*   and back, <<>> before
    tag_text,                       \* a text given to from_toml_string
    tag_parsed                      \* <<>> before, <<its Option>> after

structure_vars ==
    <<has_header_row, column_count, data_row_count, inconsistent_columns_warning>>
sampler_vars ==
    <<csv_lines, rows_processed, column_names, column_sample_values,
      column_non_empty_counts, column_empty_counts>>
detect_vars == <<sample_input, detected_type, sample_votes>>
path_vars == <<path_input_a, path_input_b, path_output_a, path_output_b>>
tag_vars == <<tag_variant, tag_round_trip, tag_text, tag_parsed>>
pure_vars == <<detect_vars, path_vars, tag_vars>>
source_vars == <<csv_file, csv_file_path, csv_file_at_start>>
history_vars == <<run_number, metadata_file_at_start, run_log>>
other_run_vars ==
    <<other_pc, other_column_information_list,
      other_metadata_file_already_existed, other_result>>
vars ==
    <<source_vars, metadata_file, pc, structure_vars, sampler_vars,
      column_information_list, metadata_file_path,
      metadata_file_already_existed, result, error, history_vars, stage_log,
      pure_vars, other_run_vars>>

\* ------------------------------------------------------------------ inputs
LineHeader == <<"x", ",", "T">>
LineMixed == <<" ", "2", " ", ",", ",", "1", ".", "5">>
LineShort == <<"1">>
LineSet == {LineHeader, LineMixed, LineShort}

SourceFiles == UNION {[1..n -> LineSet] : n \in 0..MaxLines}

SampleValueSet ==
    { <<"1">>, <<"T">>, <<"2">>, <<" ", "-", "2", " ">>, <<"1", ".", "5">>, <<"x">> }
OneToTen ==
    << <<"1">>, <<"2">>, <<"3">>, <<"4">>, <<"5">>,
       <<"6">>, <<"7">>, <<"8">>, <<"9">>, <<"1", "0">> >>
MixedFive == << <<"1", ".", "5">>, <<"2">>, <<"3">>, <<"x">>, <<"y">> >>
SampleLists ==
    UNION {[1..n -> SampleValueSet] : n \in 0..MaxSamples} \cup {OneToTen, MixedFive}

\* ------------------------------------------------------------ source paths
\* A path is whether it starts at the root and its components in order.
NoPath == [absolute |-> FALSE, components |-> <<>>]
RootPath == [absolute |-> TRUE, components |-> <<>>]
GoodSourcePath == [absolute |-> TRUE, components |-> << <<"w">>, <<"d", ".", "c", "s", "v">> >>]
TomlNamedSourcePath ==
    [absolute |-> TRUE, components |-> << <<"w">>, <<"d", ".", "c", "s", "v", "_", "m", "e", "t", "a", "d", "a", "t", "a", ".", "t", "o", "m", "l">> >>]
NonUnicodeSourcePath ==
    [absolute |-> TRUE, components |-> << <<"w">>, <<InvalidByte, ".", "c", "s", "v">> >>]
SourceFileNames ==
    { <<"d", ".", "c", "s", "v">>,
      <<"d", ".", "t", "s", "v">>,
      <<"e", ".", "c", "s", "v">>,
      <<"d">>,
      <<".", "h">>,
      <<"d", ".", "a", ".", "b">>,
      <<"d", ".">>,
      <<"d", ".", "c", "s", "v", "_", "m", "e", "t", "a", "d", "a", "t", "a", ".", "t", "o", "m", "l">>,
      <<InvalidByte, ".", "c", "s", "v">>, <<"d", ".", InvalidByte>>,
      ParentDirComponent }
SourceDirectories ==
    { [absolute |-> TRUE, components |-> << <<"w">> >>],
      [absolute |-> TRUE, components |-> << <<"v">> >>],
      [absolute |-> FALSE, components |-> <<>>] }
SourcePaths ==
    {join(d, n) : d \in SourceDirectories, n \in SourceFileNames}
    \cup {NoPath, RootPath}

\* Texts handed to from_toml_string.
TagTexts ==
    { <<"b", "o", "o", "l", "e", "a", "n">>,
      <<"b", "o", "o", "l">>,
      <<"i", "n", "t", "e", "g", "e", "r">>,
      <<"i", "n", "t">>,
      <<"f", "l", "o", "a", "t">>,
      <<"d", "e", "c", "i", "m", "a", "l">>,
      <<"n", "u", "m", "b", "e", "r">>,
      <<"s", "t", "r", "i", "n", "g">>,
      <<"t", "e", "x", "t">>,
      <<"s", "t", "r">>,
      <<"B", "o", "o", "l", "e", "a", "n">>,
      <<"I", "N", "T">>,
      <<"F", "l", "o", "a", "t">>,
      <<"S", "T", "R", "I", "N", "G">>,
      <<"T", "e", "x", "t">>,
      <<"x">>,
      <<"b", "o", "o", "l", "e", "a", "n", "s">>,
      <<" ", "i", "n", "t">>,
      <<>> }

\* Sources of more than CSV_SAMPLE_ROWS_FOR_TYPE_DETECTION lines.
LongLineSet == {LineHeader, LineShort}
LongSourceFiles ==
    UNION {[1..n -> LongLineSet] :
               n \in (CSV_SAMPLE_ROWS_FOR_TYPE_DETECTION + 1)..MaxLongLines}

\* Sources analysed more than once.
RerunSourceFiles == UNION {[1..n -> LineSet] : n \in 0..MaxRerunLines}

MissingFile == [exists |-> FALSE, lines |-> <<>>]
AbsentMetadata == [exists |-> FALSE, content |-> <<>>]
StaleMetadata == [exists |-> TRUE, content |-> << <<"stale">> >>]

\* -------------------------------------------------------------- the errors
FileSystemError ==
    [kind |-> "FileSystemError", line_number |-> <<>>, column_index |-> <<>>]
CsvProcessingError_zero_based(line_number) ==
    [kind |-> "CsvProcessingError", line_number |-> <<line_number - 1>>,
     column_index |-> <<>>]
CsvProcessingError(line_number) ==
    [kind |-> "CsvProcessingError", line_number |-> <<line_number>>,
     column_index |-> <<>>]
ConfigurationError ==
    [kind |-> "ConfigurationError", line_number |-> <<>>, column_index |-> <<>>]

\* ------------------------------------------- analyze_csv_basic_structure
count_csv_columns_in_line_commas_only(csv_line) ==
    Cardinality({i \in 1..Len(csv_line) : csv_line[i] = ","})

count_csv_columns_in_line(csv_line) == Len(split_on_comma(csv_line))

IsNumericField(field) ==
    LET trimmed_field == trim(field)
    IN  parses_as_i64(trimmed_field) \/ parses_as_f64(trimmed_field)

count_numeric_fields(fields) == Len(SelectSeq(fields, IsNumericField))

\* The second line is read from the iterator, which has yielded `yielded`
\* lines; the iterator moves on only if there is one.
detect_csv_header_row_or_equal(lines, yielded, expected_column_count, first_line) ==
    IF yielded >= Len(lines)
    THEN [likely_header |-> FALSE, warning |-> FALSE, yielded |-> yielded]
    ELSE LET first_fields == split_on_comma(first_line)
             second_fields == split_on_comma(lines[yielded + 1])
         IN  [likely_header |->
                  count_numeric_fields(first_fields)
                      <= count_numeric_fields(second_fields),
              warning |->
                  \/ Len(first_fields) # expected_column_count
                  \/ Len(second_fields) # expected_column_count,
              yielded |-> yielded + 1]

detect_csv_header_row_lone_line_is_header(lines, yielded, expected_column_count, first_line) ==
    IF yielded >= Len(lines)
    THEN [likely_header |-> TRUE, warning |-> FALSE, yielded |-> yielded]
    ELSE LET first_fields == split_on_comma(first_line)
             second_fields == split_on_comma(lines[yielded + 1])
         IN  [likely_header |->
                  count_numeric_fields(first_fields)
                      < count_numeric_fields(second_fields),
              warning |->
                  \/ Len(first_fields) # expected_column_count
                  \/ Len(second_fields) # expected_column_count,
              yielded |-> yielded + 1]

detect_csv_header_row(lines, yielded, expected_column_count, first_line) ==
    IF yielded >= Len(lines)
    THEN [likely_header |-> FALSE, warning |-> FALSE, yielded |-> yielded]
    ELSE LET first_fields == split_on_comma(first_line)
             second_fields == split_on_comma(lines[yielded + 1])
         IN  [likely_header |->
                  count_numeric_fields(first_fields)
                      < count_numeric_fields(second_fields),
              warning |->
                  \/ Len(first_fields) # expected_column_count
                  \/ Len(second_fields) # expected_column_count,
              yielded |-> yielded + 1]

RECURSIVE count_remaining_csv_lines(_, _)
count_remaining_csv_lines(lines, yielded) ==
    IF yielded >= Len(lines) THEN 0
    ELSE 1 + count_remaining_csv_lines(lines, yielded + 1)

\* The (has_header_row, column_count, data_row_count) of a file that opens and
\* has a first line.
analyze_csv_basic_structure(lines) ==
    LET first_line == lines[1]
        columns == count_csv_columns_in_line(first_line)
        header == detect_csv_header_row(lines, 1, columns, first_line)
        total_rows == count_remaining_csv_lines(lines, header.yielded)
    IN  [has_header_row |-> header.likely_header,
         column_count |-> columns,
         data_row_count |->
             IF header.likely_header THEN total_rows ELSE total_rows + 1,
         warning |-> header.warning]

\* ---------------------------------- analyze_csv_column_types_and_content
parse_csv_line_into_fields(csv_line) == split_on_comma(csv_line)

generated_column_name_zero_based(index) == ColumnPrefix \o format_usize(index)

\* format!("column_{}", index + 1)
generated_column_name(index) == ColumnPrefix \o format_usize(index + 1)

generated_column_names(columns) ==
    [i \in 1..columns |-> generated_column_name(i - 1)]

push_sample_value_unbounded(sample_values, trimmed_value) ==
    Append(sample_values, trimmed_value)

\* The guarded push: a column keeps at most SAMPLE_VALUES_LIMIT samples.
push_sample_value(sample_values, trimmed_value) ==
    IF Len(sample_values) < SAMPLE_VALUES_LIMIT
    THEN Append(sample_values, trimmed_value)
    ELSE sample_values

\* One field of a row; `column_index` is 0-based, the vectors are 1-based.
process_field(acc, column_index, field_value, columns) ==
    IF column_index >= columns THEN acc
    ELSE LET trimmed_value == trim(field_value)
         IN  IF Len(trimmed_value) = 0
             THEN [acc EXCEPT !.empty[column_index + 1] = @ + 1]
             ELSE [acc EXCEPT
                      !.non_empty[column_index + 1] = @ + 1,
                      !.samples[column_index + 1] =
                          push_sample_value(@, trimmed_value)]

RECURSIVE process_fields_padding_short_rows(_, _, _, _)
process_fields_padding_short_rows(acc, field_values, column_index, columns) ==
    IF column_index >= Len(field_values) /\ column_index >= columns THEN acc
    ELSE process_fields_padding_short_rows(
             process_field(acc, column_index,
                           IF column_index < Len(field_values)
                           THEN field_values[column_index + 1] ELSE <<>>,
                           columns),
             field_values, column_index + 1, columns)

\* The fields of a row from `column_index` on, in order.
RECURSIVE process_fields(_, _, _, _)
process_fields(acc, field_values, column_index, columns) ==
    IF column_index >= Len(field_values) THEN acc
    ELSE process_fields(
             process_field(acc, column_index, field_values[column_index + 1], columns),
             field_values, column_index + 1, columns)

column_info_shifted_index(column_index, names, samples, non_empty, empty) ==
    [column_index |-> column_index + 1,
     column_name |->
         IF column_index < Len(names) THEN names[column_index + 1]
         ELSE generated_column_name(column_index),
     detected_data_type |-> detect_column_data_type(samples[column_index + 1]),
     non_empty_value_count |-> non_empty[column_index + 1],
     empty_value_count |-> empty[column_index + 1],
     sample_values |-> samples[column_index + 1]]

column_info_string_when_sparse(column_index, names, samples, non_empty, empty) ==
    [column_index |-> column_index,
     column_name |->
         IF column_index < Len(names) THEN names[column_index + 1]
         ELSE generated_column_name(column_index),
     detected_data_type |->
         IF empty[column_index + 1] > 0 THEN "String"
         ELSE detect_column_data_type(samples[column_index + 1]),
     non_empty_value_count |-> non_empty[column_index + 1],
     empty_value_count |-> empty[column_index + 1],
     sample_values |-> samples[column_index + 1]]

\* The CsvColumnInformation of one column.
column_info(column_index, names, samples, non_empty, empty) ==
    [column_index |-> column_index,
     column_name |->
         IF column_index < Len(names) THEN names[column_index + 1]
         ELSE generated_column_name(column_index),
     detected_data_type |-> detect_column_data_type(samples[column_index + 1]),
     non_empty_value_count |-> non_empty[column_index + 1],
     empty_value_count |-> empty[column_index + 1],
     sample_values |-> samples[column_index + 1]]

\* for column_index in 0..columns { column_info_list.push(..) }
RECURSIVE build_column_info_list(_, _, _, _, _)
build_column_info_list(columns, names, samples, non_empty, empty) ==
    IF columns = 0 THEN <<>>
    ELSE Append(build_column_info_list(columns - 1, names, samples, non_empty, empty),
                column_info(columns - 1, names, samples, non_empty, empty))

\* The sampling loop from line `next_line` on, `processed` rows done.
RECURSIVE sample_rows(_, _, _, _, _)
sample_rows(acc, lines, next_line, processed, columns) ==
    IF processed >= CSV_SAMPLE_ROWS_FOR_TYPE_DETECTION \/ next_line > Len(lines)
    THEN acc
    ELSE sample_rows(
             process_fields(acc, parse_csv_line_into_fields(lines[next_line]), 0, columns),
             lines, next_line + 1, processed + 1, columns)

\* analyze_csv_column_types_and_content from its open to its Ok, on a file
\* that opens and reads.
analyze_csv_column_types_and_content(lines, has_header, columns) ==
    LET names == IF has_header THEN parse_csv_line_into_fields(lines[1])
                 ELSE generated_column_names(columns)
        acc == sample_rows([samples |-> [i \in 1..columns |-> <<>>],
                            non_empty |-> [i \in 1..columns |-> 0],
                            empty |-> [i \in 1..columns |-> 0]],
                           lines, IF has_header THEN 2 ELSE 1, 0, columns)
    IN  build_column_info_list(columns, names, acc.samples, acc.non_empty, acc.empty)

\* ---------------------------------------------- create_or_update_metadata_file
toml_column_section_keyed_by_index(column) ==
    << <<"[">> \o ColumnPrefix \o format_usize(column.column_index) \o <<"]">>,
       <<"name = \"">> \o column.column_name \o <<"\"">>,
       <<"data_type = \"">> \o to_toml_string(column.detected_data_type) \o <<"\"">>,
       <<"column_index = ">> \o format_usize(column.column_index),
       <<"non_empty_values = ">> \o format_usize(column.non_empty_value_count),
       <<"empty_values = ">> \o format_usize(column.empty_value_count),
       <<>> >>

\* A line of the file is its pieces in order: the literal pieces of the
\* format string and the characters of each formatted value.
toml_column_section(column) ==
    << <<"[">> \o ColumnPrefix \o format_usize(column.column_index + 1) \o <<"]">>,
       <<"name = \"">> \o column.column_name \o <<"\"">>,
       <<"data_type = \"">> \o to_toml_string(column.detected_data_type) \o <<"\"">>,
       <<"column_index = ">> \o format_usize(column.column_index),
       <<"non_empty_values = ">> \o format_usize(column.non_empty_value_count),
       <<"empty_values = ">> \o format_usize(column.empty_value_count),
       <<>> >>

RECURSIVE toml_column_sections(_)
toml_column_sections(columns) ==
    IF Len(columns) = 0 THEN <<>>
    ELSE toml_column_section(Head(columns)) \o toml_column_sections(Tail(columns))

toml_content(columns) ==
    << <<"# CSV Metadata File">>,
       <<"# Generated by rows_and_columns">>,
       <<>>,
       <<"total_columns = ">> \o format_usize(Len(columns)),
       <<>> >>
    \o toml_column_sections(columns)

\* ------------------------------------------------------------ initial states
RunLocalsInit ==
    /\ has_header_row = FALSE
    /\ column_count = 0
    /\ data_row_count = 0
    /\ inconsistent_columns_warning = FALSE
    /\ csv_lines = 0
    /\ rows_processed = 0
    /\ column_names = <<>>
    /\ column_sample_values = <<>>
    /\ column_non_empty_counts = <<>>
    /\ column_empty_counts = <<>>
    /\ column_information_list = <<>>
    /\ metadata_file_path = <<>>
    /\ metadata_file_already_existed = FALSE
    /\ result = <<>>
    /\ error = <<>>
    /\ stage_log = <<>>

\* No run has been made on the source yet.
FirstRunInit ==
    /\ run_number = 1
    /\ csv_file_at_start = csv_file
    /\ metadata_file_at_start = metadata_file
    /\ run_log = <<>>

PathIdle ==
    /\ path_input_a = NoPath
    /\ path_input_b = NoPath
    /\ path_output_a = <<>>
    /\ path_output_b = <<>>

TagIdle ==
    /\ tag_variant = "String"
    /\ tag_round_trip = <<>>
    /\ tag_text = <<>>
    /\ tag_parsed = <<>>

DetectIdle ==
    /\ sample_input = <<>>
    /\ detected_type = <<>>
    /\ sample_votes = <<>>

\* The run is the only one on its source.
NoOtherRun ==
    /\ other_pc = "none"
    /\ other_column_information_list = <<>>
    /\ other_metadata_file_already_existed = FALSE
    /\ other_result = <<>>

\* No file is analysed: a function of the module is applied on its own.
PipelineIdle ==
    /\ csv_file = MissingFile
    /\ csv_file_path = NoPath
    /\ metadata_file = AbsentMetadata
    /\ pc = "idle"
    /\ RunLocalsInit
    /\ FirstRunInit
    /\ NoOtherRun

\* A run of analyze_csv_file_structure_and_types on a source that is missing
\* or holds up to MaxLines lines, the sidecar absent or left by an earlier run.
Init ==
    /\ csv_file \in {MissingFile} \cup {[exists |-> TRUE, lines |-> f] : f \in SourceFiles}
    /\ csv_file_path = GoodSourcePath
    /\ metadata_file \in {AbsentMetadata, StaleMetadata}
    /\ pc = "start"
    /\ RunLocalsInit
    /\ FirstRunInit
    /\ NoOtherRun
    /\ DetectIdle
    /\ PathIdle
    /\ TagIdle

\* A run on a source of more lines than the sampler reads.
InitLong ==
    /\ csv_file \in {[exists |-> TRUE, lines |-> f] : f \in LongSourceFiles}
    /\ csv_file_path = GoodSourcePath
    /\ metadata_file = AbsentMetadata
    /\ pc = "start"
    /\ RunLocalsInit
    /\ FirstRunInit
    /\ NoOtherRun
    /\ DetectIdle
    /\ PathIdle
    /\ TagIdle

\* The first of up to MaxRuns runs on one source, which is left unchanged.
InitRuns ==
    /\ csv_file \in {MissingFile} \cup {[exists |-> TRUE, lines |-> f] : f \in RerunSourceFiles}
    /\ csv_file_path \in {GoodSourcePath, NonUnicodeSourcePath}
    /\ metadata_file \in {AbsentMetadata, StaleMetadata}
    /\ pc = "start"
    /\ RunLocalsInit
    /\ FirstRunInit
    /\ NoOtherRun
    /\ DetectIdle
    /\ PathIdle
    /\ TagIdle

\* A run on a source at any of the paths.
InitEveryPath ==
    /\ csv_file \in {MissingFile} \cup {[exists |-> TRUE, lines |-> f] : f \in RerunSourceFiles}
    /\ csv_file_path \in SourcePaths
    /\ metadata_file \in {AbsentMetadata, StaleMetadata}
    /\ pc = "start"
    /\ RunLocalsInit
    /\ FirstRunInit
    /\ NoOtherRun
    /\ DetectIdle
    /\ PathIdle
    /\ TagIdle

\* A run on a source that another program may replace between the passes.
InitModified ==
    /\ csv_file \in {[exists |-> TRUE, lines |-> f] : f \in RerunSourceFiles}
    /\ csv_file_path = GoodSourcePath
    /\ metadata_file = AbsentMetadata
    /\ pc = "start"
    /\ RunLocalsInit
    /\ FirstRunInit
    /\ NoOtherRun
    /\ DetectIdle
    /\ PathIdle
    /\ TagIdle

\* Two runs on one source at once, each about to begin.
InitConcurrent ==
    /\ csv_file \in {[exists |-> TRUE, lines |-> f] : f \in RerunSourceFiles}
    /\ csv_file_path = GoodSourcePath
    /\ metadata_file \in {AbsentMetadata, StaleMetadata}
    /\ pc = "start"
    /\ RunLocalsInit
    /\ FirstRunInit
    /\ other_pc = "start"
    /\ other_column_information_list = <<>>
    /\ other_metadata_file_already_existed = FALSE
    /\ other_result = <<>>
    /\ DetectIdle
    /\ PathIdle
    /\ TagIdle

\* detect_column_data_type on its own, on every sample list of the bounds.
InitDetect ==
    /\ PipelineIdle
    /\ sample_input \in SampleLists
    /\ detected_type = <<>>
    /\ sample_votes = <<>>
    /\ PathIdle
    /\ TagIdle

\* determine_metadata_file_path on its own, on two source paths.
InitPath ==
    /\ PipelineIdle
    /\ DetectIdle
    /\ path_input_a \in SourcePaths
    /\ path_input_b \in SourcePaths
    /\ path_output_a = <<>>
    /\ path_output_b = <<>>
    /\ TagIdle

\* to_toml_string and from_toml_string on their own.
InitTags ==
    /\ PipelineIdle
    /\ DetectIdle
    /\ PathIdle
    /\ tag_variant \in CsvColumnDataType
    /\ tag_round_trip = <<>>
    /\ tag_text \in TagTexts
    /\ tag_parsed = <<>>

\* ------------------------------------------------------------------ actions
Fail_after_creating_metadata(e) ==
    /\ pc' = "failed"
    /\ error' = <<e>>
    /\ csv_lines' = 0
    /\ rows_processed' = 0
    /\ column_names' = <<>>
    /\ column_sample_values' = <<>>
    /\ column_non_empty_counts' = <<>>
    /\ column_empty_counts' = <<>>
    /\ metadata_file' = [exists |-> TRUE, content |-> <<>>]
    /\ UNCHANGED <<source_vars, column_information_list, metadata_file_path,
                   metadata_file_already_existed, result, history_vars,
                   pure_vars, other_run_vars>>

\* A stage returns Err: `?` ends the run, the stage's locals are dropped.
Fail(e) ==
    /\ pc' = "failed"
    /\ error' = <<e>>
    /\ csv_lines' = 0
    /\ rows_processed' = 0
    /\ column_names' = <<>>
    /\ column_sample_values' = <<>>
    /\ column_non_empty_counts' = <<>>
    /\ column_empty_counts' = <<>>
    /\ UNCHANGED <<source_vars, metadata_file, column_information_list,
                   metadata_file_path, metadata_file_already_existed, result,
                   history_vars, pure_vars, other_run_vars>>

open_succeeds_on_any_path(file) == TRUE

\* File::open(csv_file_path) returns Ok.
open_succeeds(file) == file.exists

\* Step 1: analyze_csv_basic_structure, the first pass over the file.
AnalyzeBasicStructure ==
    /\ pc = "start"
    /\ stage_log' = Append(stage_log, "structure")
    /\ IF ~open_succeeds(csv_file)
       THEN Fail(FileSystemError) /\ UNCHANGED structure_vars
       ELSE IF Len(csv_file.lines) = 0
       THEN Fail(CsvProcessingError(1)) /\ UNCHANGED structure_vars
       ELSE LET s == analyze_csv_basic_structure(csv_file.lines)
            IN  /\ has_header_row' = s.has_header_row
                /\ column_count' = s.column_count
                /\ data_row_count' = s.data_row_count
                /\ inconsistent_columns_warning' = s.warning
                /\ pc' = "sampler_open"
                /\ UNCHANGED <<source_vars, metadata_file, sampler_vars,
                               column_information_list, metadata_file_path,
                               metadata_file_already_existed, result, error,
                               history_vars, pure_vars, other_run_vars>>

\* A line of the first pass cannot be read: a file-system error.
StructureReadFails ==
    /\ pc = "start"
    /\ open_succeeds(csv_file)
    /\ Len(csv_file.lines) >= 1
    /\ stage_log' = Append(stage_log, "structure")
    /\ Fail(FileSystemError)
    /\ UNCHANGED structure_vars

\* Step 2 begins: the file is opened again, the vectors are set up and the
\* column names are read from the header line or generated.
SamplerOpen ==
    /\ pc = "sampler_open"
    /\ stage_log' = Append(stage_log, "sampler")
    /\ IF ~open_succeeds(csv_file)
       THEN Fail(FileSystemError) /\ UNCHANGED structure_vars
       ELSE IF has_header_row /\ Len(csv_file.lines) = 0
       THEN Fail(CsvProcessingError(1)) /\ UNCHANGED structure_vars
       ELSE /\ column_sample_values' = [i \in 1..column_count |-> <<>>]
            /\ column_non_empty_counts' = [i \in 1..column_count |-> 0]
            /\ column_empty_counts' = [i \in 1..column_count |-> 0]
            /\ column_names' =
                   IF has_header_row
                   THEN parse_csv_line_into_fields(csv_file.lines[1])
                   ELSE generated_column_names(column_count)
            /\ csv_lines' = IF has_header_row THEN 1 ELSE 0
            /\ rows_processed' = 0
            /\ pc' = "sampling"
            /\ UNCHANGED <<source_vars, metadata_file, structure_vars,
                           column_information_list, metadata_file_path,
                           metadata_file_already_existed, result, error,
                           history_vars, pure_vars, other_run_vars>>

MoreRowsToSample_one_past_the_window ==
    /\ rows_processed <= CSV_SAMPLE_ROWS_FOR_TYPE_DETECTION
    /\ csv_lines < Len(csv_file.lines)

MoreRowsToSample ==
    /\ rows_processed < CSV_SAMPLE_ROWS_FOR_TYPE_DETECTION
    /\ csv_lines < Len(csv_file.lines)

\* One iteration of the sampling loop: one data row.
SampleRow ==
    /\ pc = "sampling"
    /\ MoreRowsToSample
    /\ LET field_values == parse_csv_line_into_fields(csv_file.lines[csv_lines + 1])
           acc == process_fields(
                      [samples |-> column_sample_values,
                       non_empty |-> column_non_empty_counts,
                       empty |-> column_empty_counts],
                      field_values, 0, column_count)
       IN  /\ column_sample_values' = acc.samples
           /\ column_non_empty_counts' = acc.non_empty
           /\ column_empty_counts' = acc.empty
    /\ csv_lines' = csv_lines + 1
    /\ rows_processed' = rows_processed + 1
    /\ UNCHANGED <<source_vars, metadata_file, pc, structure_vars, column_names,
                   column_information_list, metadata_file_path,
                   metadata_file_already_existed, result, error, history_vars,
                   stage_log, pure_vars, other_run_vars>>

\* The header line or a data row of the second pass cannot be read.
SamplerReadFails ==
    /\ \/ /\ pc = "sampler_open"
          /\ open_succeeds(csv_file)
          /\ has_header_row
          /\ Len(csv_file.lines) >= 1
          /\ stage_log' = Append(stage_log, "sampler")
       \/ /\ pc = "sampling"
          /\ MoreRowsToSample
          /\ UNCHANGED stage_log
    /\ Fail(FileSystemError)
    /\ UNCHANGED structure_vars

\* Step 2 ends: the loop is over, one CsvColumnInformation per column.
BuildColumnInformation ==
    /\ pc = "sampling"
    /\ ~MoreRowsToSample
    /\ column_information_list' =
           build_column_info_list(column_count, column_names,
                                  column_sample_values,
                                  column_non_empty_counts, column_empty_counts)
    /\ pc' = "metadata_check"
    /\ UNCHANGED <<source_vars, metadata_file, structure_vars, sampler_vars,
                   metadata_file_path, metadata_file_already_existed, result,
                   error, history_vars, stage_log, pure_vars, other_run_vars>>

path_exists_read_after_write(file) == TRUE

path_exists_inverted(file) == ~file.exists

\* metadata_file_path.exists()
path_exists(file) == file.exists

\* The file a path names: the source at csv_file_path, the sidecar elsewhere.
file_at(path) ==
    IF path = csv_file_path
    THEN [exists |-> csv_file.exists, content |-> csv_file.lines]
    ELSE metadata_file

\* The file a path names becomes `file`; the other file stays.
store_file(path, file) ==
    IF path = csv_file_path
    THEN /\ csv_file' = [exists |-> file.exists, lines |-> file.content]
         /\ UNCHANGED metadata_file
    ELSE /\ metadata_file' = file
         /\ UNCHANGED csv_file

\* Step 3: the metadata path is derived and its existence is read.
CheckMetadataFile ==
    /\ pc = "metadata_check"
    /\ stage_log' = Append(stage_log, "metadata_check")
    /\ LET derived == determine_metadata_file_path(csv_file_path)
       IN  IF ~derived.ok
           THEN Fail(ConfigurationError) /\ UNCHANGED structure_vars
           ELSE /\ metadata_file_path' = derived.path
                /\ metadata_file_already_existed' =
                       path_exists(file_at(derived.path[1]))
                /\ pc' = "metadata_write"
                /\ UNCHANGED <<source_vars, metadata_file, structure_vars,
                               sampler_vars, column_information_list, result,
                               error, history_vars, pure_vars, other_run_vars>>

write_file_create_only(old_file, contents) ==
    IF old_file.exists THEN old_file
    ELSE [exists |-> TRUE, content |-> contents]

write_file_appending(old_file, contents) ==
    [exists |-> TRUE, content |-> old_file.content \o contents]

\* std::fs::write(path, contents) returning Ok: the file is created if it is
\* missing, emptied if it is there, and holds the contents.
write_file(old_file, contents) == [exists |-> TRUE, content |-> contents]

\* What std::fs::write can leave behind when it returns Err: the file as it
\* was (it could not be opened) or emptied and holding part of the contents.
interrupted_writes(old_file, contents) ==
    {old_file} \cup
    {[exists |-> TRUE, content |-> SubSeq(contents, 1, k)] : k \in 0..(Len(contents) - 1)}

CsvAnalysisResults ==
    [csv_file_path |-> csv_file_path,
     has_header_row |-> has_header_row,
     total_column_count |-> column_count,
     total_data_row_count |-> data_row_count,
     column_information_list |-> column_information_list,
     metadata_file_path |-> metadata_file_path[1],
     metadata_file_already_existed |-> metadata_file_already_existed]

\* Step 4 and the return: the file is written whole, the results are built.
WriteMetadataFile ==
    /\ pc = "metadata_write"
    /\ stage_log' = Append(stage_log, "metadata_write")
    /\ LET written == write_file(file_at(metadata_file_path[1]),
                                 toml_content(column_information_list))
       IN  /\ store_file(metadata_file_path[1], written)
           /\ run_log' =
                  Append(run_log,
                         [run |-> run_number,
                          at_start |-> metadata_file_at_start,
                          results |-> CsvAnalysisResults,
                          existed_before_write |-> file_at(metadata_file_path[1]).exists,
                          written |-> written])
    /\ result' = <<CsvAnalysisResults>>
    /\ pc' = "done"
    /\ UNCHANGED <<csv_file_path, csv_file_at_start, structure_vars, sampler_vars,
                   column_information_list, metadata_file_path,
                   metadata_file_already_existed, error, run_number,
                   metadata_file_at_start, pure_vars, other_run_vars>>

\* Step 4 fails: create_dir_all or std::fs::write returns Err.
WriteMetadataFails ==
    /\ pc = "metadata_write"
    /\ stage_log' = Append(stage_log, "metadata_write")
    /\ \E left \in interrupted_writes(file_at(metadata_file_path[1]),
                                       toml_content(column_information_list)) :
           store_file(metadata_file_path[1], left)
    /\ pc' = "failed"
    /\ error' = <<FileSystemError>>
    /\ UNCHANGED <<csv_file_path, csv_file_at_start, structure_vars, sampler_vars,
                   column_information_list, metadata_file_path,
                   metadata_file_already_existed, result, history_vars,
                   pure_vars, other_run_vars>>

\* Between the first pass's close and the second pass's File::open another
\* program replaces or removes the source, once.
SourceModifiedBetweenPasses ==
    /\ pc = "sampler_open"
    /\ csv_file = csv_file_at_start
    /\ csv_file' \in
           ({MissingFile} \cup {[exists |-> TRUE, lines |-> f] : f \in RerunSourceFiles})
               \ {csv_file}
    /\ UNCHANGED <<csv_file_path, csv_file_at_start, metadata_file, pc,
                   structure_vars, sampler_vars, column_information_list,
                   metadata_file_path, metadata_file_already_existed, result,
                   error, history_vars, stage_log, pure_vars, other_run_vars>>

other_run_frame ==
    UNCHANGED <<csv_file_path, csv_file_at_start, pc, structure_vars,
                sampler_vars, column_information_list, metadata_file_path,
                metadata_file_already_existed, result, error, history_vars,
                stage_log, pure_vars>>

\* Steps 1 and 2 of the concurrent run: its two passes read the source, which
\* no run writes.
OtherAnalyze ==
    /\ other_pc = "start"
    /\ IF ~open_succeeds(csv_file) \/ Len(csv_file.lines) = 0
       THEN /\ other_pc' = "failed"
            /\ UNCHANGED other_column_information_list
       ELSE LET s == analyze_csv_basic_structure(csv_file.lines)
            IN  /\ other_column_information_list' =
                       analyze_csv_column_types_and_content(
                           csv_file.lines, s.has_header_row, s.column_count)
                /\ other_pc' = "metadata_check"
    /\ UNCHANGED <<csv_file, metadata_file, other_metadata_file_already_existed,
                   other_result>>
    /\ other_run_frame

\* Step 3 of the concurrent run.
OtherCheckMetadataFile ==
    /\ other_pc = "metadata_check"
    /\ LET derived == determine_metadata_file_path(csv_file_path)
       IN  IF ~derived.ok
           THEN /\ other_pc' = "failed"
                /\ UNCHANGED other_metadata_file_already_existed
           ELSE /\ other_metadata_file_already_existed' =
                       path_exists(file_at(derived.path[1]))
                /\ other_pc' = "metadata_write"
    /\ UNCHANGED <<csv_file, metadata_file, other_column_information_list,
                   other_result>>
    /\ other_run_frame

\* Step 4 and the return of the concurrent run.
OtherWriteMetadataFile ==
    /\ other_pc = "metadata_write"
    /\ LET target == determine_metadata_file_path(csv_file_path).path[1]
           s == analyze_csv_basic_structure(csv_file.lines)
       IN  /\ store_file(target,
                         write_file(file_at(target),
                                    toml_content(other_column_information_list)))
           /\ other_result' =
                  <<[csv_file_path |-> csv_file_path,
                     has_header_row |-> s.has_header_row,
                     total_column_count |-> s.column_count,
                     total_data_row_count |-> s.data_row_count,
                     column_information_list |-> other_column_information_list,
                     metadata_file_path |-> target,
                     metadata_file_already_existed |->
                         other_metadata_file_already_existed]>>
    /\ other_pc' = "done"
    /\ UNCHANGED <<other_column_information_list,
                   other_metadata_file_already_existed>>
    /\ other_run_frame

\* The function has returned and is called again on the same source.
RunAgain ==
    /\ pc \in {"done", "failed"}
    /\ run_number < MaxRuns
    /\ run_number' = run_number + 1
    /\ metadata_file_at_start' = metadata_file
    /\ pc' = "start"
    /\ has_header_row' = FALSE
    /\ column_count' = 0
    /\ data_row_count' = 0
    /\ inconsistent_columns_warning' = FALSE
    /\ csv_lines' = 0
    /\ rows_processed' = 0
    /\ column_names' = <<>>
    /\ column_sample_values' = <<>>
    /\ column_non_empty_counts' = <<>>
    /\ column_empty_counts' = <<>>
    /\ column_information_list' = <<>>
    /\ metadata_file_path' = <<>>
    /\ metadata_file_already_existed' = FALSE
    /\ result' = <<>>
    /\ error' = <<>>
    /\ stage_log' = <<>>
    /\ UNCHANGED <<source_vars, metadata_file, run_log, pure_vars, other_run_vars>>

\* detect_column_data_type applied to the sample list drawn.
DetectColumnDataType ==
    /\ pc = "idle"
    /\ Len(detected_type) = 0
    /\ detected_type' = <<detect_column_data_type(sample_input)>>
    /\ sample_votes' =
           <<count_votes([boolean_count |-> 0, integer_count |-> 0,
                          float_count |-> 0], sample_input)>>
    /\ UNCHANGED <<source_vars, metadata_file, pc, structure_vars, sampler_vars,
                   column_information_list, metadata_file_path,
                   metadata_file_already_existed, result, error, history_vars,
                   stage_log, sample_input, path_vars, tag_vars, other_run_vars>>

\* determine_metadata_file_path applied to the first path drawn.
DetermineMetadataFilePathA ==
    /\ pc = "idle"
    /\ Len(path_output_a) = 0
    /\ path_output_a' = <<determine_metadata_file_path(path_input_a)>>
    /\ UNCHANGED <<source_vars, metadata_file, pc, structure_vars, sampler_vars,
                   column_information_list, metadata_file_path,
                   metadata_file_already_existed, result, error, history_vars,
                   stage_log, detect_vars, path_input_a, path_input_b,
                   path_output_b, tag_vars, other_run_vars>>

\* determine_metadata_file_path applied to the second path drawn.
DetermineMetadataFilePathB ==
    /\ pc = "idle"
    /\ Len(path_output_b) = 0
    /\ path_output_b' = <<determine_metadata_file_path(path_input_b)>>
    /\ UNCHANGED <<source_vars, metadata_file, pc, structure_vars, sampler_vars,
                   column_information_list, metadata_file_path,
                   metadata_file_already_existed, result, error, history_vars,
                   stage_log, detect_vars, path_input_a, path_input_b,
                   path_output_a, tag_vars, other_run_vars>>

\* from_toml_string(variant.to_toml_string())
RoundTripTag ==
    /\ pc = "idle"
    /\ Len(tag_round_trip) = 0
    /\ tag_round_trip' = <<from_toml_string(to_toml_string(tag_variant))>>
    /\ UNCHANGED <<source_vars, metadata_file, pc, structure_vars, sampler_vars,
                   column_information_list, metadata_file_path,
                   metadata_file_already_existed, result, error, history_vars,
                   stage_log, detect_vars, path_vars, tag_variant, tag_text,
                   tag_parsed, other_run_vars>>

\* from_toml_string applied to the text drawn.
ParseTagText ==
    /\ pc = "idle"
    /\ Len(tag_parsed) = 0
    /\ tag_parsed' = <<from_toml_string(tag_text)>>
    /\ UNCHANGED <<source_vars, metadata_file, pc, structure_vars, sampler_vars,
                   column_information_list, metadata_file_path,
                   metadata_file_already_existed, result, error, history_vars,
                   stage_log, detect_vars, path_vars, tag_variant, tag_text,
                   tag_round_trip, other_run_vars>>

Next ==
    \/ AnalyzeBasicStructure
    \/ StructureReadFails
    \/ SamplerOpen
    \/ SampleRow
    \/ SamplerReadFails
    \/ BuildColumnInformation
    \/ CheckMetadataFile
    \/ WriteMetadataFile
    \/ WriteMetadataFails

Spec == Init /\ [][Next]_vars

SpecLong == InitLong /\ [][Next]_vars

\* A run on a source of either kind, shorter or longer than the sample window.
InitAnyLength == Init \/ InitLong

SpecAnyLength == InitAnyLength /\ [][Next]_vars

NextRuns ==
    \/ Next
    \/ RunAgain

SpecRuns == InitRuns /\ [][NextRuns]_vars

SpecEveryPath == InitEveryPath /\ [][Next]_vars

NextConcurrent ==
    \/ Next
    \/ OtherAnalyze
    \/ OtherCheckMetadataFile
    \/ OtherWriteMetadataFile

SpecConcurrent == InitConcurrent /\ [][NextConcurrent]_vars

NextModified ==
    \/ Next
    \/ SourceModifiedBetweenPasses

SpecModified == InitModified /\ [][NextModified]_vars

NextDetect == DetectColumnDataType

SpecDetect == InitDetect /\ [][NextDetect]_vars

NextPath ==
    \/ DetermineMetadataFilePathA
    \/ DetermineMetadataFilePathB

SpecPath == InitPath /\ [][NextPath]_vars

NextTags ==
    \/ RoundTripTag
    \/ ParseTagText

SpecTags == InitTags /\ [][NextTags]_vars

\* ------------------------------------------------------------------ claims
\* The structure results are set and the run has not failed.
StructureKnown ==
    pc \in {"sampler_open", "sampling", "metadata_check", "metadata_write", "done"}
\* The sampler's vectors are set.
SamplerRunning == pc \in {"sampling", "metadata_check", "metadata_write", "done"}
PhysicalLines == Len(csv_file.lines)
HeaderLines == IF has_header_row THEN 1 ELSE 0
Smaller(a, b) == IF a <= b THEN a ELSE b

\* C1: for every non-empty source file, data_row_count is the number of
\* physical lines of the file, minus 1 exactly when has_header_row is true.
C1_DataRowCountIsLinesMinusHeader ==
    StructureKnown => data_row_count = PhysicalLines - HeaderLines

\* C2: in every result returned, every column's non_empty_value_count +
\* empty_value_count is at most min(10, total_data_row_count) of that result.
C2_CountsWithinSampledDataRows ==
    pc = "done" =>
        \A i \in 1..Len(result[1].column_information_list) :
            LET column == result[1].column_information_list[i]
            IN  column.non_empty_value_count + column.empty_value_count
                    <= Smaller(10, result[1].total_data_row_count)

\* The reference classifier of C3 to C6: the votes counted as sets of places.
RefNormalized(value) == to_lowercase(trim(value))
RefVotesBoolean(value) == RefNormalized(value) \in BooleanTokens
RefVotesInteger(value) ==
    ~RefVotesBoolean(value) /\ parses_as_i64(RefNormalized(value))
RefVotesFloat(value) ==
    /\ ~RefVotesBoolean(value)
    /\ ~parses_as_i64(RefNormalized(value))
    /\ parses_as_f64(RefNormalized(value))
RefBooleanCount(list) == Cardinality({i \in 1..Len(list) : RefVotesBoolean(list[i])})
RefIntegerCount(list) == Cardinality({i \in 1..Len(list) : RefVotesInteger(list[i])})
RefFloatCount(list) == Cardinality({i \in 1..Len(list) : RefVotesFloat(list[i])})
RefVotesFor(data_type, list) ==
    CASE data_type = "Boolean" -> RefBooleanCount(list)
      [] data_type = "Integer" -> RefIntegerCount(list)
      [] data_type = "Float" -> RefFloatCount(list)
RefClassifier(list) ==
    IF Len(list) = 0 THEN "String"
    ELSE LET threshold == (Len(list) * 7) \div 10
             reaching == {t \in {"Boolean", "Integer", "Float"} :
                             RefVotesFor(t, list) >= threshold}
         IN  IF "Boolean" \in reaching THEN "Boolean"
             ELSE IF "Integer" \in reaching THEN "Integer"
             ELSE IF "Float" \in reaching THEN "Float"
             ELSE "String"
Detected == pc = "idle" /\ Len(detected_type) = 1

C4_TypedOnlyWithSeventyPercent ==
    (Detected /\ Len(sample_input) >= 1 /\ detected_type[1] # "String") =>
        RefVotesFor(detected_type[1], sample_input) * 10 >= 7 * Len(sample_input)

\* C5: every sample list of 1 to 5 values none of which votes Boolean, Integer
\* or Float is classified String.
C5_StringIsTheFallback ==
    (/\ Detected
     /\ Len(sample_input) \in 1..5
     /\ RefBooleanCount(sample_input) = 0
     /\ RefIntegerCount(sample_input) = 0
     /\ RefFloatCount(sample_input) = 0)
        => detected_type[1] = "String"

RefNumericCount(line) ==
    LET fields == split_on_comma(line)
    IN  Cardinality({i \in 1..Len(fields) :
                        \/ parses_as_i64(trim(fields[i]))
                        \/ parses_as_f64(trim(fields[i]))})
RefCommaCount(line) == Cardinality({i \in 1..Len(line) : line[i] = ","})

\* C7: has_header_row is true if and only if the file has a second line and
\* line 1 has strictly fewer numeric-looking fields than line 2.
C7_HeaderIsOneComparison ==
    StructureKnown =>
        (has_header_row <=>
            /\ PhysicalLines >= 2
            /\ RefNumericCount(csv_file.lines[1]) < RefNumericCount(csv_file.lines[2]))
\* A header has been detected in a file of two lines or more.
C7_Witness == StructureKnown /\ has_header_row /\ PhysicalLines >= 2

\* C8: column_count is the number of commas of the first physical line plus
\* one, whatever the later lines hold; a field-count mismatch with line 2 only
\* warns and the run goes on without an error.
C8_ColumnCountIsCommasPlusOne ==
    StructureKnown =>
        /\ column_count = RefCommaCount(csv_file.lines[1]) + 1
        /\ inconsistent_columns_warning => Len(error) = 0
\* A run has ended well though line 2 has another field count than line 1.
C8_Witness ==
    /\ pc = "done"
    /\ inconsistent_columns_warning
    /\ RefCommaCount(csv_file.lines[2]) # RefCommaCount(csv_file.lines[1])

\* C9: in every result, column_information_list has total_column_count entries
\* and entry i has column_index i, whatever the lengths of the rows.
C9_OneEntryPerColumnInIndexOrder ==
    pc = "done" =>
        /\ Len(result[1].column_information_list) = result[1].total_column_count
        /\ \A i \in 0..(result[1].total_column_count - 1) :
               result[1].column_information_list[i + 1].column_index = i
\* A result for a file with a row shorter and a row longer than line 1.
C9_Witness ==
    /\ pc = "done"
    /\ \E j, k \in 2..PhysicalLines :
           /\ RefCommaCount(csv_file.lines[j]) < RefCommaCount(csv_file.lines[1])
           /\ RefCommaCount(csv_file.lines[k]) > RefCommaCount(csv_file.lines[1])

\* The non-empty trimmed values of column `index` (0-based) in `rows`, in row
\* order: the rows that have the field, and a non-blank one.
RefColumnValues(index, rows) ==
    LET HasValue(row) ==
            /\ Len(split_on_comma(row)) > index
            /\ Len(trim(split_on_comma(row)[index + 1])) > 0
        with_value == SelectSeq(rows, HasValue)
    IN  [j \in 1..Len(with_value) |-> trim(split_on_comma(with_value[j])[index + 1])]
\* The rows the sampling loop has processed so far.
RefSampledRows == SubSeq(csv_file.lines, HeaderLines + 1, csv_lines)

\* C10: at every step of the sampling loop and in the result, each column's
\* sample_values is the first min(5, k) non-empty trimmed values of the column
\* among the rows sampled so far, in row order, k being the column's
\* non_empty_value_count; so it never holds more than 5 values.
C10_SamplesAreFirstFiveNonEmpty ==
    /\ SamplerRunning =>
           \A i \in 1..column_count :
               LET values == RefColumnValues(i - 1, RefSampledRows)
                   k == column_non_empty_counts[i]
               IN  /\ k = Len(values)
                   /\ column_sample_values[i] = SubSeq(values, 1, Smaller(5, k))
                   /\ Len(column_sample_values[i]) <= 5
    /\ pc = "done" =>
           \A i \in 1..column_count :
               LET column == result[1].column_information_list[i]
                   values == RefColumnValues(i - 1, RefSampledRows)
               IN  /\ column.non_empty_value_count = Len(values)
                   /\ column.sample_values =
                          SubSeq(values, 1, Smaller(5, column.non_empty_value_count))
\* The loop stands at a column that has met more than five non-empty values.
C10_Witness ==
    /\ pc = "sampling"
    /\ \E i \in 1..column_count :
           /\ column_non_empty_counts[i] > 5
           /\ Len(column_sample_values[i]) = 5
           /\ column_sample_values[i][1] # column_sample_values[i][2]

\* The data rows inside the sampling window, and the data rows after it.
RefWindowRows ==
    SubSeq(csv_file.lines, HeaderLines + 1,
           Smaller(PhysicalLines, HeaderLines + CSV_SAMPLE_ROWS_FOR_TYPE_DETECTION))
RefRowsAfterWindow ==
    SubSeq(csv_file.lines, HeaderLines + CSV_SAMPLE_ROWS_FOR_TYPE_DETECTION + 1,
           PhysicalLines)
\* How many of `rows` have a blank field at column `index` (0-based).
RefEmptyCount(index, rows) ==
    LET HasBlank(row) ==
            /\ Len(split_on_comma(row)) > index
            /\ Len(trim(split_on_comma(row)[index + 1])) = 0
    IN  Len(SelectSeq(rows, HasBlank))
ColumnsBuilt == pc \in {"metadata_check", "metadata_write", "done"}

\* C11: however many rows the file has, the sampler processes at most 10 data
\* rows: every column's non-empty and empty counts sum to at most 10, and the
\* counts, samples and detected type of every column are those of the first
\* ten data rows alone, so no row after the tenth changes any of them.
C11_OnlyTheFirstTenRowsCount ==
    /\ SamplerRunning =>
           /\ rows_processed <= 10
           /\ csv_lines <= HeaderLines + 10
           /\ \A i \in 1..column_count :
                  column_non_empty_counts[i] + column_empty_counts[i] <= 10
    /\ ColumnsBuilt =>
           /\ Len(column_information_list) = column_count
           /\ \A i \in 1..column_count :
                  LET column == column_information_list[i]
                      values == RefColumnValues(i - 1, RefWindowRows)
                      samples == SubSeq(values, 1, Smaller(5, Len(values)))
                  IN  /\ column.non_empty_value_count = Len(values)
                      /\ column.empty_value_count = RefEmptyCount(i - 1, RefWindowRows)
                      /\ column.non_empty_value_count + column.empty_value_count <= 10
                      /\ column.sample_values = samples
                      /\ column.detected_data_type = detect_column_data_type(samples)
    /\ pc = "done" => result[1].column_information_list = column_information_list
\* A run has returned on a file whose eleventh data row holds a value in a
\* column that the first ten rows left with fewer than five samples.
C11_Witness ==
    /\ pc = "done"
    /\ Len(RefRowsAfterWindow) > 0
    /\ \E i \in 1..column_count :
           /\ Len(result[1].column_information_list[i].sample_values) < 5
           /\ Len(RefColumnValues(i - 1, RefRowsAfterWindow)) > 0

\* The results of a run without its metadata_file_already_existed.
ResultsButExisted(results) ==
    [field \in DOMAIN results \ {"metadata_file_already_existed"} |-> results[field]]
\* The log entries of run `n` (none if the run failed, else one).
RunsNumbered(n) == {k \in DOMAIN run_log : run_log[k].run = n}

\* C12: starting with no metadata file, two runs on an unchanged source with
\* no other writer both succeed (the second run can only fail on an I/O error
\* of the file system), leave identical metadata content after each run, and
\* return equal results except metadata_file_already_existed, which is false
\* for the first run and true for the second.
C12_TwoRunsAreIdempotent ==
    /\ \A j \in RunsNumbered(1), k \in RunsNumbered(2) :
           ~run_log[j].at_start.exists =>
               /\ run_log[j].written.exists
               /\ run_log[k].written = run_log[j].written
               /\ run_log[k].at_start = run_log[j].written
               /\ ResultsButExisted(run_log[k].results) =
                      ResultsButExisted(run_log[j].results)
               /\ run_log[j].results.metadata_file_already_existed = FALSE
               /\ run_log[k].results.metadata_file_already_existed = TRUE
    /\ (run_number = 2 /\ RunsNumbered(1) # {} /\ pc = "failed") =>
           error[1].kind = "FileSystemError"
    /\ (run_number = 2 /\ RunsNumbered(1) # {} /\ pc = "done") =>
           /\ RunsNumbered(2) # {}
           /\ metadata_file = run_log[1].written
\* Two runs have returned on a source of two columns that had no metadata file.
C12_Witness ==
    /\ pc = "done"
    /\ run_number = 2
    /\ Len(run_log) = 2
    /\ ~run_log[1].at_start.exists
    /\ run_log[1].results.total_column_count >= 2
    /\ Len(run_log[2].written.content) > 5

\* C13: for a source file with zero lines the analysis fails with a CSV
\* processing error carrying line number 1 and no column index, and the
\* metadata file is left exactly as it was.
C13_EmptyFileIsAProcessingError ==
    (csv_file.exists /\ Len(csv_file.lines) = 0) =>
        /\ pc \in {"start", "failed"}
        /\ Len(result) = 0
        /\ metadata_file = metadata_file_at_start
        /\ pc = "failed" =>
               /\ error[1].kind = "CsvProcessingError"
               /\ error[1].line_number = <<1>>
               /\ error[1].column_index = <<>>
               /\ stage_log = <<"structure">>
\* The run on an empty source has failed beside a metadata file that an
\* earlier run had left.
C13_Witness ==
    /\ pc = "failed"
    /\ csv_file.exists
    /\ Len(csv_file.lines) = 0
    /\ metadata_file = StaleMetadata

\* C14: for a source that cannot be opened the analysis fails with a
\* file-system error and no metadata file is created or modified.
C14_UnopenableSourceIsAFileSystemError ==
    ~csv_file.exists =>
        /\ pc \in {"start", "failed"}
        /\ Len(result) = 0
        /\ metadata_file = metadata_file_at_start
        /\ pc = "failed" =>
               /\ error = <<[kind |-> "FileSystemError", line_number |-> <<>>,
                              column_index |-> <<>>]>>
               /\ stage_log = <<"structure">>
\* The run on a missing source has failed and no metadata file is there.
C14_Witness ==
    /\ pc = "failed"
    /\ ~csv_file.exists
    /\ metadata_file = AbsentMetadata
    /\ error[1].kind = "FileSystemError"

\* The four stages of a run, in the order of the orchestrator.
Stages == <<"structure", "sampler", "metadata_check", "metadata_write">>
StagesEntered(n) == SubSeq(Stages, 1, n)
LastStage == stage_log[Len(stage_log)]
\* The errors with which each stage can end a run.
StageErrors(stage) ==
    CASE stage = "structure" ->
             {"FileSystemError", "CsvProcessingError"}
      [] stage = "sampler" -> {"FileSystemError", "CsvProcessingError"}
      [] stage = "metadata_check" -> {"ConfigurationError"}
      [] stage = "metadata_write" -> {"FileSystemError"}

\* C15: the stages run strictly in the order structure, sampler, metadata
\* check, metadata write, and the run stops at the first failure: after a
\* stage fails no later stage is entered, no result is returned, and the
\* metadata file is written only after both analysis passes succeeded.
C15_StagesInOrderAndShortCircuit ==
    /\ \E n \in 0..Len(Stages) : stage_log = StagesEntered(n)
    /\ pc = "start" => stage_log = StagesEntered(0)
    /\ pc = "sampler_open" => stage_log = StagesEntered(1)
    /\ pc \in {"sampling", "metadata_check"} => stage_log = StagesEntered(2)
    /\ pc = "metadata_write" => stage_log = StagesEntered(3)
    /\ pc = "done" => stage_log = StagesEntered(4) /\ Len(error) = 0
    /\ Len(result) > 0 <=> pc = "done"
    /\ pc = "failed" =>
           /\ Len(stage_log) >= 1
           /\ error[1].kind \in StageErrors(LastStage)
           /\ Len(result) = 0
           /\ ~ENABLED Next
    /\ Len(stage_log) < 4 => metadata_file = metadata_file_at_start
    /\ Len(stage_log) = 4 =>
           /\ column_count >= 1
           /\ Len(column_information_list) = column_count
           /\ Len(metadata_file_path) = 1
\* A run that passed both analysis passes has failed deriving the metadata
\* path: the column list is built and the stale metadata file is untouched.
C15_Witness ==
    /\ pc = "failed"
    /\ stage_log = StagesEntered(3)
    /\ error[1].kind = "ConfigurationError"
    /\ column_count >= 1
    /\ Len(column_information_list) = column_count
    /\ metadata_file = StaleMetadata

\* C16: in every successful run metadata_file_already_existed is whether the
\* metadata file existed immediately before this run's write, it is not read
\* again after the write, and after the run the file exists; so in a
\* sequence of successful runs on one source only the first can report false.
C16_ExistedIsReadBeforeTheWrite ==
    /\ pc = "metadata_write" => metadata_file_already_existed = metadata_file.exists
    /\ pc = "done" =>
           /\ metadata_file.exists
           /\ result[1].metadata_file_already_existed =
                  run_log[Len(run_log)].existed_before_write
    /\ \A k \in DOMAIN run_log :
           /\ run_log[k].results.metadata_file_already_existed =
                  run_log[k].existed_before_write
           /\ run_log[k].written.exists
           /\ k > 1 => run_log[k].results.metadata_file_already_existed
\* Three runs in a row have returned, the first one reporting false.
C16_Witness ==
    /\ Len(run_log) = 3
    /\ ~run_log[1].results.metadata_file_already_existed
    /\ run_log[2].results.metadata_file_already_existed
    /\ run_log[3].results.metadata_file_already_existed

\* The last component of a path and the components before it.
RefLastComponent(path) == path.components[Len(path.components)]
RefDirectory(path) == SubSeq(path.components, 1, Len(path.components) - 1)
\* The stem of a file name: the name up to its last '.', a '.' that opens the
\* name not counting.
RefStem(name) ==
    LET inner_dots == {i \in 2..Len(name) : name[i] = "."}
    IN  IF inner_dots = {} THEN name
        ELSE SubSeq(name, 1, (CHOOSE i \in inner_dots : \A j \in inner_dots : j <= i) - 1)
\* The path names a file whose stem is valid text.
RefHasStem(path) ==
    /\ Len(path.components) >= 1
    /\ RefLastComponent(path) # <<".", ".">>
    /\ \A i \in 1..Len(RefStem(RefLastComponent(path))) :
           RefStem(RefLastComponent(path))[i] # InvalidByte
RefSuffix ==
    <<".", "c", "s", "v", "_", "m", "e", "t", "a", "d", "a", "t", "a",
      ".", "t", "o", "m", "l">>
\* One derivation against <parent>/<stem>.csv_metadata.toml.
RefDerivedFrom(output, path) ==
    /\ output.ok <=> RefHasStem(path)
    /\ output.ok =>
           /\ output.path[1].absolute = path.absolute
           /\ RefDirectory(output.path[1]) = RefDirectory(path)
           /\ RefLastComponent(output.path[1]) =
                  RefStem(RefLastComponent(path)) \o RefSuffix
PathsDerived == Len(path_output_a) = 1 /\ Len(path_output_b) = 1

\* C17: the metadata path is <parent>/<stem>.csv_metadata.toml, a function
\* of the source's parent directory and file stem only: the same source path
\* gives the same metadata path, in the source's directory, and two sources
\* of one directory get the same metadata path exactly when their stems are
\* equal (d.csv and d.tsv share one metadata file).
C17_MetadataPathIsParentAndStem ==
    /\ Len(path_output_a) = 1 => RefDerivedFrom(path_output_a[1], path_input_a)
    /\ Len(path_output_b) = 1 => RefDerivedFrom(path_output_b[1], path_input_b)
    /\ PathsDerived =>
           /\ path_input_a = path_input_b => path_output_a = path_output_b
           /\ ( /\ path_output_a[1].ok
                /\ path_output_b[1].ok
                /\ path_input_a.absolute = path_input_b.absolute
                /\ RefDirectory(path_input_a) = RefDirectory(path_input_b) ) =>
                  ( path_output_a = path_output_b <=>
                        RefStem(RefLastComponent(path_input_a)) =
                            RefStem(RefLastComponent(path_input_b)) )
\* The paths of /w/d.csv and /w/d.tsv have been derived and are one path.
C17_Witness ==
    /\ PathsDerived
    /\ path_input_a = [absolute |-> TRUE,
                       components |-> << <<"w">>, <<"d", ".", "c", "s", "v">> >>]
    /\ path_input_b = [absolute |-> TRUE,
                       components |-> << <<"w">>, <<"d", ".", "t", "s", "v">> >>]
    /\ path_output_a[1].ok
    /\ path_output_a = path_output_b

\* C18: the metadata file is rewritten from scratch: what a successful run
\* leaves depends only on the column list computed in that run, so runs
\* started from different prior states of the file (absent, stale, cut short
\* by a failed write, left by an earlier run) end with identical content.
C18_MetadataIsRewrittenFromScratch ==
    /\ \A k \in DOMAIN run_log :
           /\ run_log[k].written.exists
           /\ run_log[k].written.content =
                  toml_content(run_log[k].results.column_information_list)
    /\ \A j, k \in DOMAIN run_log :
           run_log[j].results.column_information_list =
               run_log[k].results.column_information_list
           => run_log[j].written = run_log[k].written
    /\ pc = "done" => metadata_file = run_log[Len(run_log)].written
\* Two runs have returned, one begun beside a stale file and one beside what
\* a failed write had left of it.
C18_Witness ==
    /\ Len(run_log) = 2
    /\ run_log[1].at_start = StaleMetadata
    /\ run_log[2].run = 3
    /\ run_log[2].at_start # run_log[1].written
    /\ run_log[2].at_start.exists
    /\ run_log[2].written = run_log[1].written

\* Line `number` of the metadata file a run has left.
WrittenLine(number) == metadata_file.content[number]
\* The line opens with the literal text and goes on with the value.
LineIs(line, literal, value) == line = <<literal>> \o value
Quoted(text) == text \o <<"\"">>
\* The first line of the block of column `index` (0-based).
BlockStart(index) == 5 + 7 * index + 1

\* C19: the written record has total_columns equal to the analysis's
\* column_count and exactly one block per column, in index order, the block
\* of column index i keyed column_<i+1>, with column_index = i and the fields
\* name, data_type, column_index, non_empty_values, empty_values in that
\* order.
C19_OneBlockPerColumnInFieldOrder ==
    pc = "done" =>
        /\ Len(metadata_file.content) = 5 + 7 * column_count
        /\ LineIs(WrittenLine(4), "total_columns = ", format_usize(column_count))
        /\ result[1].total_column_count = column_count
        /\ \A i \in 0..(column_count - 1) :
               LET column == result[1].column_information_list[i + 1]
                   first == BlockStart(i)
               IN  /\ WrittenLine(first) =
                          <<"[", "c", "o", "l", "u", "m", "n", "_">>
                              \o format_usize(i + 1) \o <<"]">>
                   /\ LineIs(WrittenLine(first + 1), "name = \"",
                             Quoted(column.column_name))
                   /\ LineIs(WrittenLine(first + 2), "data_type = \"",
                             Quoted(to_toml_string(column.detected_data_type)))
                   /\ LineIs(WrittenLine(first + 3), "column_index = ",
                             format_usize(i))
                   /\ LineIs(WrittenLine(first + 4), "non_empty_values = ",
                             format_usize(column.non_empty_value_count))
                   /\ LineIs(WrittenLine(first + 5), "empty_values = ",
                             format_usize(column.empty_value_count))
                   /\ WrittenLine(first + 6) = <<>>
\* A run on a source of three columns has written its record.
C19_Witness ==
    /\ pc = "done"
    /\ column_count = 3
    /\ Len(metadata_file.content) = 26
    /\ metadata_file.content[20][1] = "["

\* C20: for each of the four variants t of CsvColumnDataType,
\* from_toml_string(to_toml_string(t)) is Some(t).
C20_TagRoundTrip ==
    Len(tag_round_trip) = 1 => tag_round_trip[1] = <<tag_variant>>
\* The tag of Float has gone through to_toml_string and from_toml_string.
C20_Witness ==
    /\ tag_variant = "Float"
    /\ tag_round_trip = << <<"Float">> >>

\* The text is the tag, letter for letter, whatever the case of each letter.
RefSameIgnoringCase(text, tag) ==
    /\ Len(text) = Len(tag)
    /\ \A i \in 1..Len(tag) :
           \/ text[i] = tag[i]
           \/ \E k \in 1..26 : UpperChars[k] = text[i] /\ LowerChars[k] = tag[i]
RefBooleanTags == {<<"b", "o", "o", "l", "e", "a", "n">>, <<"b", "o", "o", "l">>}
RefIntegerTags == {<<"i", "n", "t", "e", "g", "e", "r">>, <<"i", "n", "t">>}
RefFloatTags == {<<"f", "l", "o", "a", "t">>, <<"d", "e", "c", "i", "m", "a", "l">>, <<"n", "u", "m", "b", "e", "r">>}
RefStringTags == {<<"s", "t", "r", "i", "n", "g">>, <<"t", "e", "x", "t">>, <<"s", "t", "r">>}
RefIsOneOf(text, tags) == \E tag \in tags : RefSameIgnoringCase(text, tag)
RefTagLookup(text) ==
    IF RefIsOneOf(text, RefBooleanTags) THEN <<"Boolean">>
    ELSE IF RefIsOneOf(text, RefIntegerTags) THEN <<"Integer">>
    ELSE IF RefIsOneOf(text, RefFloatTags) THEN <<"Float">>
    ELSE IF RefIsOneOf(text, RefStringTags) THEN <<"String">>
    ELSE <<>>

\* C26: from_toml_string returns Some(variant) exactly for the accepted tags
\* compared without regard to case (boolean, bool; integer, int; float,
\* decimal, number; string, text, str) and None for every other text.
C26_TagLookupIgnoresCase ==
    Len(tag_parsed) = 1 => tag_parsed[1] = RefTagLookup(tag_text)
\* An upper-case synonym has been parsed to its variant.
C26_Witness ==
    /\ tag_text = <<"I", "N", "T">>
    /\ tag_parsed = << <<"Integer">> >>

\* The ten boolean tokens.
RefTokens ==
    {<<"t", "r", "u", "e">>, <<"f", "a", "l", "s", "e">>, <<"y", "e", "s">>, <<"n", "o">>, <<"1">>, <<"0">>, <<"t">>, <<"f">>, <<"y">>, <<"n">>}
RefIsToken(value) == RefNormalized(value) \in RefTokens
RefIsInteger(value) == parses_as_i64(RefNormalized(value))
RefIsFloat(value) == parses_as_f64(RefNormalized(value))
\* The places of `list` whose value satisfies `Test`.
RefPlaces(list, Test(_)) == {i \in 1..Len(list) : Test(list[i])}
VotesCounted == pc = "idle" /\ Len(sample_votes) = 1

\* C22: each sample value casts at most one vote, decided in the order
\* boolean token, integer, float: a token (true, false, yes, no, 1, 0, t, f,
\* y, n) votes only Boolean, so "1" and "0" never vote Integer; a value that
\* parses as integer and as float votes only Integer; the three counts sum to
\* at most n; and the sample 1.5, 2, 3, x, y is classified String.
C22_OneVotePerValueInOrder ==
    VotesCounted =>
        LET votes == sample_votes[1]
            tokens == RefPlaces(sample_input, RefIsToken)
            integers == RefPlaces(sample_input, RefIsInteger) \ tokens
            floats == (RefPlaces(sample_input, RefIsFloat) \ tokens) \ integers
        IN  /\ votes.boolean_count = Cardinality(tokens)
            /\ votes.integer_count = Cardinality(integers)
            /\ votes.float_count = Cardinality(floats)
            /\ votes.boolean_count + votes.integer_count + votes.float_count
                   <= Len(sample_input)
            /\ sample_input = MixedFive => detected_type[1] = "String"
\* The votes of 1.5, 2, 3, x, y are counted: one Boolean, two Integer, one
\* Float, one value without a vote.
C22_Witness ==
    /\ VotesCounted
    /\ sample_input = MixedFive
    /\ sample_votes[1] = [boolean_count |-> 1, integer_count |-> 2, float_count |-> 1]

\* The number of fields of a line: one more than its commas.
RefFieldCount(line) == Cardinality({p \in 1..Len(line) : line[p] = ","}) + 1
\* The line numbers of the sampled rows: the first min(10, D) lines after the
\* header, D being the physical lines less the header line.
RefSampledLineNumbers ==
    LET first == IF has_header_row THEN 2 ELSE 1
        D == Len(csv_file.lines) - (IF has_header_row THEN 1 ELSE 0)
    IN  first..(first + (IF D < 10 THEN D ELSE 10) - 1)
RefRowsWithField(index) ==
    {k \in RefSampledLineNumbers : RefFieldCount(csv_file.lines[k]) > index}

\* C23: for each column i, non_empty_value_count + empty_value_count is the
\* number of sampled rows that have more than i fields, the sampled rows
\* being the first min(10, D) lines after the header (line 1 included when
\* no header is detected): a row shorter than column_count counts for none
\* of its missing columns and fields at index >= column_count change nothing.
C23_CountsAreRowsHavingTheField ==
    ColumnsBuilt =>
        /\ Len(column_information_list) = column_count
        /\ Len(column_non_empty_counts) = column_count
        /\ Len(column_empty_counts) = column_count
        /\ rows_processed = Cardinality(RefSampledLineNumbers)
        /\ \A i \in 0..(column_count - 1) :
               column_information_list[i + 1].non_empty_value_count
                   + column_information_list[i + 1].empty_value_count
               = Cardinality(RefRowsWithField(i))
\* A run without a header has returned on a source with a sampled row
\* shorter than column_count and one longer than it.
C23_Witness ==
    /\ pc = "done"
    /\ ~has_header_row
    /\ 1 \in RefSampledLineNumbers
    /\ \E k \in RefSampledLineNumbers : RefFieldCount(csv_file.lines[k]) < column_count
    /\ \E k \in RefSampledLineNumbers : RefFieldCount(csv_file.lines[k]) > column_count

\* The place of the n-th comma of a line, 0 before the line and one past its
\* end when the line has fewer commas.
RefCommaPlace(line, n) ==
    LET places == {p \in 1..Len(line) :
                      /\ line[p] = ","
                      /\ Cardinality({q \in 1..p : line[q] = ","}) = n}
    IN  IF n = 0 THEN 0
        ELSE IF places = {} THEN Len(line) + 1
        ELSE CHOOSE p \in places : TRUE
\* Field `index` (0-based) of a line: the text between two commas.
RefFieldAt(line, index) ==
    SubSeq(line, RefCommaPlace(line, index) + 1, RefCommaPlace(line, index + 1) - 1)
RefOneToNine == <<"1", "2", "3", "4", "5", "6", "7", "8", "9">>
RefPlaceholderName(index) ==
    <<"c", "o", "l", "u", "m", "n", "_", RefOneToNine[index + 1]>>

\* C24: when has_header is true, the name of column i is field i of the first
\* physical line, for every i below column_count; when it is false, the name
\* of column i is column_<i+1>.
C24_NamesFromHeaderOrGenerated ==
    /\ SamplerRunning => Len(column_names) = column_count
    /\ ColumnsBuilt =>
           \A i \in 0..(column_count - 1) :
               column_information_list[i + 1].column_name =
                   IF has_header_row THEN RefFieldAt(csv_file.lines[1], i)
                   ELSE RefPlaceholderName(i)
\* A run has returned with the two names of its header line x,T.
C24_Witness ==
    /\ pc = "done"
    /\ has_header_row
    /\ column_count = 2
    /\ result[1].column_information_list[1].column_name = <<"x">>
    /\ result[1].column_information_list[2].column_name = <<"T">>

\* The first five of the non-empty trimmed values of column `index` in the
\* sampled rows, and all of them.
RefAllValues(index) == RefColumnValues(index, RefWindowRows)
RefFirstFive(index) ==
    SubSeq(RefAllValues(index), 1, Smaller(5, Len(RefAllValues(index))))

\* C25: a column's detected type is computed from its collected sample list
\* only: it is the classification of the column's first five non-empty
\* sampled values, so columns that agree on those values get the same type
\* whatever their later values, their empty values and their counts are.
C25_TypeIsOfTheFirstFiveValues ==
    pc = "done" =>
        LET columns == result[1].column_information_list
        IN  /\ \A i \in 1..column_count :
                   /\ columns[i].sample_values = RefFirstFive(i - 1)
                   /\ columns[i].detected_data_type =
                          RefClassifier(columns[i].sample_values)
            /\ \A i, j \in 1..column_count :
                   columns[i].sample_values = columns[j].sample_values =>
                       columns[i].detected_data_type = columns[j].detected_data_type
\* A run has returned with a column of more than five non-empty values and
\* some empty ones whose type is not what all its values together would give.
C25_Witness ==
    /\ pc = "done"
    /\ \E i \in 1..column_count :
           LET column == result[1].column_information_list[i]
           IN  /\ column.non_empty_value_count > 5
               /\ column.detected_data_type # RefClassifier(RefAllValues(i - 1))

\* C21: the analysis never writes the source file: for every source path the
\* derived metadata path differs from the source path, the metadata path is
\* the only file written, and the source's content is the same before and
\* after any run, successful or failed.
C21_SourceIsNeverWritten ==
    /\ Len(metadata_file_path) = 1 => metadata_file_path[1] # csv_file_path
    /\ csv_file = csv_file_at_start
    /\ pc = "done" =>
           /\ result[1].metadata_file_path # result[1].csv_file_path
           /\ file_at(result[1].metadata_file_path) = run_log[Len(run_log)].written
           /\ metadata_file = run_log[Len(run_log)].written
\* A run has returned on a source named d.csv_metadata.toml, and the sidecar
\* holds the record although the source bears the sidecar's suffix.
C21_Witness ==
    /\ pc = "done"
    /\ csv_file_path = TomlNamedSourcePath
    /\ Len(csv_file_at_start.lines) = 2
    /\ metadata_file.content = toml_content(column_information_list)

SourceUnmodified == csv_file = csv_file_at_start
FailedInSampler == pc = "failed" /\ stage_log = <<"structure", "sampler">>

\* C27: if the source is not modified between the two passes, the sampler's
\* processing error for a missing header line is unreachable, because
\* has_header is true only for files of at least two lines; the error is
\* reached only when the file has shrunk to zero lines between the first
\* pass and the second pass's own open.
C27_MissingHeaderErrorNeedsAShrunkFile ==
    /\ (StructureKnown /\ SourceUnmodified /\ has_header_row) =>
           Len(csv_file.lines) >= 2
    /\ (FailedInSampler /\ SourceUnmodified) => error[1].kind = "FileSystemError"
    /\ (FailedInSampler /\ error[1].kind = "CsvProcessingError") =>
           /\ ~SourceUnmodified
           /\ has_header_row
           /\ Len(csv_file_at_start.lines) >= 2
           /\ csv_file.exists
           /\ Len(csv_file.lines) = 0
           /\ error[1].line_number = <<1>>
           /\ error[1].column_index = <<>>
\* The second pass has failed for want of a header line in a file that held
\* two lines during the first pass.
C27_Witness ==
    /\ FailedInSampler
    /\ error[1].kind = "CsvProcessingError"
    /\ Len(csv_file_at_start.lines) = 2
    /\ Len(csv_file.lines) = 0

BothReturned == pc = "done" /\ other_pc = "done"

\* C28: the check of existence and the write are two steps and no lock
\* guards them: of two concurrent runs on a source without a metadata file,
\* each reports false exactly when its check came before every write, so
\* they are never both true, and they are both false when both checks came
\* before both writes; both runs return and the file holds the record.
C28_CheckAndWriteAreNotAtomic ==
    /\ (pc = "metadata_write" /\ ~metadata_file_at_start.exists) =>
           (metadata_file_already_existed => other_pc = "done")
    /\ (other_pc = "metadata_write" /\ ~metadata_file_at_start.exists) =>
           (other_metadata_file_already_existed => pc \in {"done", "failed"})
    /\ BothReturned =>
           /\ result[1].column_information_list =
                  other_result[1].column_information_list
           /\ ResultsButExisted(result[1]) = ResultsButExisted(other_result[1])
           /\ metadata_file.exists
           /\ metadata_file.content =
                  toml_content(result[1].column_information_list)
           /\ metadata_file_at_start.exists =>
                  /\ result[1].metadata_file_already_existed
                  /\ other_result[1].metadata_file_already_existed
           /\ ~metadata_file_at_start.exists =>
                  ~( /\ result[1].metadata_file_already_existed
                     /\ other_result[1].metadata_file_already_existed )
\* Both runs have returned on a source that had no metadata file, and both
\* report that none existed.
C28_Witness ==
    /\ BothReturned
    /\ ~metadata_file_at_start.exists
    /\ ~result[1].metadata_file_already_existed
    /\ ~other_result[1].metadata_file_already_existed
    /\ metadata_file.exists

====
